---- MODULE Spec2Model ----
(***************************************************************************)
(* Model of src/gen.cpp: the test-input generators sample, genTree,        *)
(* genConnectedDirectedGraph and getLeaves, together with the parts of the *)
(* random source (testlib's rnd: next, wnext, perm, distinct, partition,   *)
(* shuffle) that they call.                                                *)
(*                                                                         *)
(* C++ vectors are sequences; the C++ index k is the sequence index k+1.   *)
(* A draw of the random source is a raw value; rnd.next(n) reduces it to   *)
(* [0, n).  Every library call receives the raw values it consumes as a    *)
(* sequence `raws`, so the same operators serve an unconstrained source    *)
(* (any raws) and a seeded one (raws read from the seed's sequence).       *)
(***************************************************************************)
EXTENDS Integers, Sequences, FiniteSets

\* ------------------------------------------------------------------ bounds
\* Largest node count n given to genTree and genConnectedDirectedGraph.
MaxN == 3
\* Largest edge count m given to genConnectedDirectedGraph.
MaxM == 3
\* Largest |t| given as bias (well under testlib's limit of 25, so wnext
\* always takes its draw-and-fold branch).
MaxT == 1
\* Largest container length given to a direct call of sample.
MaxLen == 4
\* Largest node count of the trees given to getLeaves.
MaxLeafN == 4
\* Most rejected (repeated) draws followed in rnd.distinct's retry loop.
MaxReject == 1
\* Period of a seeded random source's raw sequence.
TapeLen == 3

Max2(a, b) == IF a >= b THEN a ELSE b

Min2(a, b) == IF a <= b THEN a ELSE b

Abs(a) == IF a >= 0 THEN a ELSE -a

\* Raw values of one draw: wide enough that next(k) can return every value
\* of [0, k) for every k the model asks for.
RawSize == Max2(Max2(MaxN, MaxM), MaxLen)

Raw == 0 .. (RawSize - 1)

Bias == (-MaxT) .. MaxT

\* The value of the caller's variable s before the call writes it.
Unset == -1

\* ----------------------------------------------------- the random source
\* rnd.next(n): a value in [0, n).
next(k, raw) == raw % k

\* rnd.next(from, to): a value in [from, to].
nextRange(from, to, raw) == from + next(to - from + 1, raw)

\* rnd.wnext(n, type) for |type| < 25: one draw, then type more draws folded
\* with max (type > 0) or -type more draws folded with min (type < 0).
RECURSIVE wfold(_, _, _, _, _)
wfold(k, type, raws, j, acc) ==
    IF j > Len(raws) THEN acc
    ELSE wfold(k, type, raws, j + 1,
               IF type > 0 THEN Max2(acc, next(k, raws[j]))
                           ELSE Min2(acc, next(k, raws[j])))

wnextDraws(type) == Abs(type) + 1

wnext(k, type, raws) == wfold(k, type, raws, 2, next(k, raws[1]))

Swap(v, a, b) == [v EXCEPT ![a + 1] = v[b + 1], ![b + 1] = v[a + 1]]

\* The loop shared by rnd.perm and shuffle:
\*   for (i = 1; i < size; i++) swap(v[i], v[next(i + 1)]);
RECURSIVE swapLoop(_, _, _)
swapLoop(v, j, raws) ==
    IF j >= Len(v) THEN v
    ELSE swapLoop(Swap(v, j, next(j + 1, raws[j])), j + 1, raws)

shuffleDraws(len) == IF len > 1 THEN len - 1 ELSE 0

\* shuffle(first, last)
shuffle(v, raws) == swapLoop(v, 1, raws)

\* rnd.perm(size, first): first, first+1, ... shuffled by the same loop.
permFrom(size, first, raws) == swapLoop([k \in 1 .. size |-> first + k - 1], 1, raws)

\* rnd.perm(n)
rndPerm(size, raws) == permFrom(size, 0, raws)

Range(v) == {v[k] : k \in 1 .. Len(v)}

\* rnd.distinct chooses between its two strategies by
\*   expected = sum_{i=1..size} n/(n-i+1) < n,
\* that is sum_{j=n-size+1..n} 1/j < 1, compared here over the common
\* denominator n!/(n-size)!.
RECURSIVE prodRange(_, _)
prodRange(a, b) == IF a > b THEN 1 ELSE a * prodRange(a + 1, b)

RECURSIVE sumOver(_, _, _)
sumOver(a, b, num) == IF a > b THEN 0 ELSE (num \div a) + sumOver(a + 1, b, num)

distinctBySet(size, cnt) ==
    LET den == prodRange(cnt - size + 1, cnt)
    IN  sumOver(cnt - size + 1, cnt, den) < den

\* The retry loop of rnd.distinct: draw until `size` different values are
\* collected.  The result and the number of draws consumed.
RECURSIVE distinctLoop(_, _, _, _, _, _)
distinctLoop(size, from, to, raws, j, acc) ==
    IF Len(acc) = size \/ j > Len(raws) THEN [res |-> acc, used |-> j - 1]
    ELSE LET x == nextRange(from, to, raws[j])
         IN  distinctLoop(size, from, to, raws, j + 1,
                          IF x \in Range(acc) THEN acc ELSE Append(acc, x))

\* The numbers of draws one call distinct(size, from, to) may consume.
distinctDraws(size, from, to) ==
    LET cnt == to - from + 1
    IN  IF size = 0 THEN {0}
        ELSE IF distinctBySet(size, cnt) THEN size .. (size + MaxReject)
        ELSE {shuffleDraws(cnt)}

\* Whether raws is exactly what one call distinct(size, from, to) consumes.
distinctTakes(size, from, to, raws) ==
    LET cnt == to - from + 1
    IN  IF size = 0 THEN Len(raws) = 0
        ELSE IF distinctBySet(size, cnt)
        THEN LET r == distinctLoop(size, from, to, raws, 1, <<>>)
             IN  Len(r.res) = size /\ r.used = Len(raws)
             \* the last draw is the one that completed the set
        ELSE Len(raws) = shuffleDraws(cnt)

\* rnd.distinct(size, from, to), called with 0 <= size <= to - from + 1.
distinct(size, from, to, raws) ==
    LET cnt == to - from + 1
    IN  IF size = 0 THEN <<>>
        ELSE IF distinctBySet(size, cnt)
        THEN distinctLoop(size, from, to, raws, 1, <<>>).res
        ELSE SubSeq(permFrom(cnt, from, raws), 1, size)

\* sort(begin, end), ascending.
RECURSIVE insertSorted(_, _)
insertSorted(v, x) ==
    IF v = <<>> THEN <<x>>
    ELSE IF x <= Head(v) THEN <<x>> \o v
    ELSE <<Head(v)>> \o insertSorted(Tail(v), x)

RECURSIVE sort(_)
sort(v) == IF v = <<>> THEN <<>> ELSE insertSorted(sort(Tail(v)), Head(v))

\* Mutant of partitionFails: an empty partition refused as well.
partitionFailsOnEmpty(size, sum, min_part) == size <= 0 \/ min_part * size > sum

\* The three fatal checks at the head of rnd.partition(size, sum, min_part).
partitionFails(size, sum, min_part) ==
    \/ size < 0
    \/ size = 0 /\ sum # 0
    \/ min_part * size > sum

\* What rnd.partition hands to distinct: (size, from, to).
partitionDistinctArgs(size, sum, min_part) ==
    <<size - 1, 1, (sum - min_part * size) + size - 1>>

partitionDraws(size, sum, min_part) ==
    IF size = 0 THEN {0}
    ELSE LET a == partitionDistinctArgs(size, sum, min_part)
         IN  distinctDraws(a[1], a[2], a[3])

partitionTakes(size, sum, min_part, raws) ==
    IF size = 0 THEN Len(raws) = 0
    ELSE LET a == partitionDistinctArgs(size, sum, min_part)
         IN  distinctTakes(a[1], a[2], a[3], raws)

\* rnd.partition(size, sum, min_part), called when partitionFails is false:
\* the gaps between sorted septums, each raised by min_part.
partition(size, sum, min_part, raws) ==
    IF size = 0 THEN <<>>
    ELSE LET rest == sum - min_part * size
             a == partitionDistinctArgs(size, sum, min_part)
             d == distinct(a[1], a[2], a[3], raws)
             septums == sort(<<0>> \o d)
         IN  [k \in 1 .. size |->
                (IF k < size THEN septums[k + 1] - septums[k] - 1
                             ELSE rest + size - 1 - septums[size]) + min_part]

\* ------------------------------------------------------------------ state
VARIABLES
    op,         \* the top-level function running: "none", "sample", "genTree",
                \* "genConnectedDirectedGraph", "getLeaves"
    pc,         \* its position: "idle", a loop label, "done" (returned),
                \* "failed" (terminated by a failed check)
    n, m, t,    \* parameters of genTree / genConnectedDirectedGraph
    s,          \* the caller's variable bound to the reference parameter s
    p, perm,    \* locals: parent indices, permutation
    edges,      \* local / parameter edges; the returned value once pc = "done"
    i,          \* the loop variable of the running loop
    wdraws,     \* the uniform draws consumed by the wnext call just made
    spc,        \* position of sample: "idle", "pick", "done", "failed"
    container, length, num,     \* parameters of sample
    vec, result, tmp, si,       \* locals of sample (si is its loop variable)
    picked,     \* the container indices sample has read, in reading order
    deg, leaf,  \* locals of getLeaves
    seed, pos,  \* the random source: its raw sequence (<<>>: unconstrained,
                \* every draw may return any raw value) and the read position
    calls,      \* the calls made on the random source so far, in order
    snap        \* what the previous run of the program computed, if any

rndVars == <<seed, pos, calls>>

sampleVars == <<spc, container, length, num, vec, result, tmp, si, picked>>

graphVars == <<n, m, t, s, p, perm, edges, i, wdraws>>

leafVars == <<deg, leaf>>

vars == <<op, pc, graphVars, sampleVars, leafVars, rndVars, snap>>

NoSnap == [n |-> -1]

InitLocals ==
    /\ op = "none" /\ pc = "idle"
    /\ n = 0 /\ m = 0 /\ t = 0 /\ s = Unset
    /\ p = <<>> /\ perm = <<>> /\ edges = <<>> /\ i = 0 /\ wdraws = <<>>
    /\ spc = "idle" /\ container = <<>> /\ length = 0 /\ num = 0
    /\ vec = <<>> /\ result = <<>> /\ tmp = 0 /\ si = 0 /\ picked = <<>>
    /\ deg = <<>> /\ leaf = <<>>
    /\ pos = 0 /\ calls = <<>>

\* A process whose random source is unconstrained.
Init == InitLocals /\ seed = <<>> /\ snap = NoSnap

\* A process started by registerGen with some seed: the source then returns
\* the raw sequence that seed determines (period TapeLen).
InitSeeded == InitLocals /\ seed \in [1 .. TapeLen -> Raw] /\ snap = NoSnap

RawSeqs(k) == [1 .. k -> Raw]

\* raws is what the source returns for the next Len(raws) draws.
Feed(raws) ==
    \/ seed = <<>>
    \/ /\ seed # <<>>
       /\ \A j \in 1 .. Len(raws) : raws[j] = seed[((pos + j - 1) % Len(seed)) + 1]

\* One library call `call` on the random source, consuming raws.
Draw(raws, call) ==
    /\ Feed(raws)
    /\ pos' = IF seed = <<>> THEN pos ELSE (pos + Len(raws)) % Len(seed)
    /\ seed' = seed
    /\ calls' = Append(calls, call)

\* ----------------------------------------------------------------- sample
\* Entry of sample(c, len, cnt): vec = rnd.partition(cnt, len, 1), which
\* terminates the program when its checks fail; then result, tmp, i = 0.
SampleEnter(c, len, cnt) ==
    /\ container' = c /\ length' = len /\ num' = cnt
    /\ IF partitionFails(cnt, len, 1)
       THEN /\ spc' = "failed"
            /\ calls' = Append(calls, <<"partition", cnt, len>>)
            /\ UNCHANGED <<vec, result, tmp, si, picked, seed, pos>>
       ELSE /\ \E k \in partitionDraws(cnt, len, 1) : \E raws \in RawSeqs(k) :
                 /\ partitionTakes(cnt, len, 1, raws)
                 /\ Draw(raws, <<"partition", cnt, len>>)
                 /\ vec' = partition(cnt, len, 1, raws)
            /\ result' = <<>> /\ tmp' = 0 /\ si' = 0 /\ picked' = <<>>
            /\ spc' = "pick"

\* Mutant of pickIndex: the draw taken from index 0 instead of from tmp.
pickIndexFromZero(lo, part, raw) == nextRange(0, lo + part - 1, raw)

\* The index sample reads in one loop iteration: a draw within the block
\* [tmp, tmp + part - 1].
pickIndex(lo, part, raw) == nextRange(lo, lo + part - 1, raw)

\* One iteration of sample's loop.
SamplePick ==
    /\ spc = "pick" /\ si < Len(vec)
    /\ \E raws \in RawSeqs(1) :
         LET idx == pickIndex(tmp, vec[si + 1], raws[1])
         IN  /\ Draw(raws, <<"next", tmp, tmp + vec[si + 1] - 1>>)
             /\ result' = Append(result, container[idx + 1])
             /\ picked' = Append(picked, idx)
    /\ tmp' = tmp + vec[si + 1]
    /\ si' = si + 1
    /\ UNCHANGED <<op, pc, graphVars, leafVars, snap>>
    /\ UNCHANGED <<spc, container, length, num, vec>>

\* The loop's exit: shuffle the result and return it.
SampleReturn ==
    /\ spc = "pick" /\ si >= Len(vec)
    /\ \E raws \in RawSeqs(shuffleDraws(Len(result))) :
         /\ Draw(raws, <<"shuffle", Len(result), 0>>)
         /\ result' = shuffle(result, raws)
    /\ spc' = "done"
    /\ pc' = IF op = "sample" THEN "done" ELSE pc
    /\ UNCHANGED <<op, graphVars, leafVars, snap>>
    /\ UNCHANGED <<container, length, num, vec, tmp, si, picked>>

\* A container of the given length with pairwise different elements, none
\* of them equal to its index.
SampleInput(len) == [k \in 1 .. len |-> 10 * k]

\* A direct call sample(container, length, count).
CallSample ==
    /\ pc = "idle"
    /\ \E len \in 0 .. MaxLen : \E cnt \in (-1) .. (MaxLen + 1) :
         /\ SampleEnter(SampleInput(len), len, cnt)
         /\ pc' = IF partitionFails(cnt, len, 1) THEN "failed" ELSE "sample"
    /\ op' = "sample"
    /\ UNCHANGED <<graphVars, leafVars, snap>>

\* ---------------------------------------------------------------- genTree
\* std::vector<int> p(n): n zeros.
zeros(k) == [j \in 1 .. k |-> 0]

\* Mutants of treeParent: the draw taken over [0, i] instead of [0, i), and
\* the bias applied with the opposite sign.
treeParentOffByOne(k, type, raws) == wnext(k + 1, type, raws)

treeParentMirrored(k, type, raws) == wnext(k, -type, raws)

\* p[i] = rnd.wnext(i, t) in genTree.
treeParent(k, type, raws) == wnext(k, type, raws)

\* The edge genTree pushes for node k: (perm[k], perm[p[k]]) when the coin
\* rnd.next(2) is non-zero, (perm[p[k]], perm[k]) otherwise.
treeEdge(pm, par, k, coin) ==
    IF coin # 0 THEN <<pm[k + 1], pm[par[k + 1] + 1]>>
                ELSE <<pm[par[k + 1] + 1], pm[k + 1]>>

\* The call genTree(n0, t0) up to its first loop.
TreeCall(n0, t0) ==
    /\ pc = "idle"
    /\ op' = "genTree" /\ pc' = "parents"
    /\ n' = n0 /\ t' = t0 /\ p' = zeros(n0) /\ i' = 1
    /\ UNCHANGED <<m, s, perm, edges, wdraws, sampleVars, leafVars, rndVars, snap>>

\* for (i = 1; i < n; i++) p[i] = rnd.wnext(i, t);
TreeParent ==
    /\ op = "genTree" /\ pc = "parents" /\ i < n
    /\ \E raws \in RawSeqs(wnextDraws(t)) :
         /\ Draw(raws, <<"wnext", i, t>>)
         /\ p' = [p EXCEPT ![i + 1] = treeParent(i, t, raws)]
         /\ wdraws' = raws
    /\ i' = i + 1
    /\ UNCHANGED <<op, pc, n, m, t, s, perm, edges, sampleVars, leafVars, snap>>

\* perm = rnd.perm(n); edges is empty; the second loop starts.
TreePerm ==
    /\ op = "genTree" /\ pc = "parents" /\ i >= n
    /\ \E raws \in RawSeqs(shuffleDraws(n)) :
         /\ Draw(raws, <<"perm", n, 0>>)
         /\ perm' = rndPerm(n, raws)
    /\ edges' = <<>> /\ i' = 1 /\ wdraws' = <<>> /\ pc' = "edges"
    /\ UNCHANGED <<op, n, m, t, s, p, sampleVars, leafVars, snap>>

\* One iteration of the edge loop: a coin flip and a push_back.
TreeEdge ==
    /\ op = "genTree" /\ pc = "edges" /\ i < n
    /\ \E raws \in RawSeqs(1) :
         /\ Draw(raws, <<"next", 2, 0>>)
         /\ edges' = Append(edges, treeEdge(perm, p, i, next(2, raws[1])))
    /\ i' = i + 1
    /\ UNCHANGED <<op, pc, n, m, t, s, p, perm, wdraws, sampleVars, leafVars, snap>>

\* shuffle(edges.begin(), edges.end()); return edges;
TreeReturn ==
    /\ op = "genTree" /\ pc = "edges" /\ i >= n
    /\ \E raws \in RawSeqs(shuffleDraws(Len(edges))) :
         /\ Draw(raws, <<"shuffle", Len(edges), 0>>)
         /\ edges' = shuffle(edges, raws)
    /\ pc' = "done"
    /\ UNCHANGED <<op, n, m, t, s, p, perm, i, wdraws, sampleVars, leafVars, snap>>

\* ---------------------------------------------- genConnectedDirectedGraph
\* Mutant of graphAssert: the bound off by one.
graphAssertLoose(n0, m0) == m0 >= n0 - 2

\* assert(m >= n - 1)
graphAssert(n0, m0) == m0 >= n0 - 1

\* Mutant of graphParent: the bias applied with the opposite sign.
graphParentMirrored(k, type, raws) == wnext(k, -type, raws)

\* p[i] = rnd.wnext(i, t) in genConnectedDirectedGraph.
graphParent(k, type, raws) == wnext(k, type, raws)

\* Mutant of graphEdge: the edge emitted child -> parent.
graphEdgeReversed(pm, par, k) == <<pm[k + 1], pm[par[k + 1] + 1]>>

\* The spanning edge pushed for node k: (perm[p[k]], perm[k]).
graphEdge(pm, par, k) == <<pm[par[k + 1] + 1], pm[k + 1]>>

\* s = perm[0]
graphStart(pm) == pm[1]

\* Mutant of graphExtra: node[0] used for both ends.
graphExtraSameNode(node) == <<node[1], node[1]>>

\* The extra edge built from node = sample(perm, n, 2): (node[0], node[1]).
graphExtra(node) == <<node[1], node[2]>>

\* Whether the loop for (i = n; i <= m; ++i) runs once more.
graphMore(k, m0) == k <= m0

\* The call genConnectedDirectedGraph(n0, m0, s, t0) up to its first loop;
\* a failed assertion terminates the program there.
GraphCall(n0, m0, t0) ==
    /\ pc = "idle"
    /\ op' = "genConnectedDirectedGraph"
    /\ n' = n0 /\ m' = m0 /\ t' = t0
    /\ IF graphAssert(n0, m0)
       THEN pc' = "parents" /\ p' = zeros(n0) /\ i' = 1
       ELSE pc' = "failed" /\ UNCHANGED <<p, i>>
    /\ UNCHANGED <<s, perm, edges, wdraws, sampleVars, leafVars, rndVars, snap>>

GraphParent ==
    /\ op = "genConnectedDirectedGraph" /\ pc = "parents" /\ i < n
    /\ \E raws \in RawSeqs(wnextDraws(t)) :
         /\ Draw(raws, <<"wnext", i, t>>)
         /\ p' = [p EXCEPT ![i + 1] = graphParent(i, t, raws)]
         /\ wdraws' = raws
    /\ i' = i + 1
    /\ UNCHANGED <<op, pc, n, m, t, s, perm, edges, sampleVars, leafVars, snap>>

GraphPerm ==
    /\ op = "genConnectedDirectedGraph" /\ pc = "parents" /\ i >= n
    /\ \E raws \in RawSeqs(shuffleDraws(n)) :
         /\ Draw(raws, <<"perm", n, 0>>)
         /\ perm' = rndPerm(n, raws)
    /\ edges' = <<>> /\ i' = 1 /\ wdraws' = <<>> /\ pc' = "span"
    /\ UNCHANGED <<op, n, m, t, s, p, sampleVars, leafVars, snap>>

\* for (i = 1; i < n; i++) edges.push_back(make_pair(perm[p[i]], perm[i]));
GraphSpan ==
    /\ op = "genConnectedDirectedGraph" /\ pc = "span" /\ i < n
    /\ edges' = Append(edges, graphEdge(perm, p, i))
    /\ i' = i + 1
    /\ UNCHANGED <<op, pc, n, m, t, s, p, perm, wdraws, sampleVars, leafVars,
                   rndVars, snap>>

\* s = perm[0]; the third loop starts with i = n.
GraphStart ==
    /\ op = "genConnectedDirectedGraph" /\ pc = "span" /\ i >= n
    /\ s' = graphStart(perm)
    /\ i' = n /\ pc' = "extra"
    /\ UNCHANGED <<op, n, m, t, p, perm, edges, wdraws, sampleVars, leafVars,
                   rndVars, snap>>

\* node = sample(perm, n, 2): the call enters sample.
GraphExtraCall ==
    /\ op = "genConnectedDirectedGraph" /\ pc = "extra" /\ spc = "idle"
    /\ graphMore(i, m)
    /\ SampleEnter(perm, n, 2)
    /\ pc' = IF partitionFails(2, n, 1) THEN "failed" ELSE pc
    /\ UNCHANGED <<op, graphVars, leafVars, snap>>

\* sample has returned: edges.push_back(make_pair(node[0], node[1])); ++i.
\* sample's locals are gone.
GraphExtraPush ==
    /\ op = "genConnectedDirectedGraph" /\ pc = "extra" /\ spc = "done"
    /\ edges' = Append(edges, graphExtra(result))
    /\ i' = i + 1
    /\ spc' = "idle" /\ container' = <<>> /\ length' = 0 /\ num' = 0
    /\ vec' = <<>> /\ result' = <<>> /\ tmp' = 0 /\ si' = 0 /\ picked' = <<>>
    /\ UNCHANGED <<op, pc, n, m, t, s, p, perm, wdraws, leafVars, rndVars, snap>>

\* shuffle(edges.begin(), edges.end()); return edges;
GraphReturn ==
    /\ op = "genConnectedDirectedGraph" /\ pc = "extra" /\ spc = "idle"
    /\ ~graphMore(i, m)
    /\ \E raws \in RawSeqs(shuffleDraws(Len(edges))) :
         /\ Draw(raws, <<"shuffle", Len(edges), 0>>)
         /\ edges' = shuffle(edges, raws)
    /\ pc' = "done"
    /\ UNCHANGED <<op, n, m, t, s, p, perm, i, wdraws, sampleVars, leafVars, snap>>

\* -------------------------------------------------------------- getLeaves
\* Mutant of degLoop: only the first endpoint of each edge is counted.
RECURSIVE degLoopFirstOnly(_, _, _)
degLoopFirstOnly(d, es, j) ==
    IF j > Len(es) THEN d
    ELSE degLoopFirstOnly([d EXCEPT ![es[j][1] + 1] = @ + 1], es, j + 1)

\* for (i = 0; i < n - 1; ++i) { deg[edges[i].first]++; deg[edges[i].second]++; }
RECURSIVE degLoop(_, _, _)
degLoop(d, es, j) ==
    IF j > Len(es) THEN d
    ELSE LET d1 == [d EXCEPT ![es[j][1] + 1] = @ + 1]
             d2 == [d1 EXCEPT ![es[j][2] + 1] = @ + 1]
         IN  degLoop(d2, es, j + 1)

\* for (i = 0; i < n; ++i) if (deg[i] == 1) leaf.push_back(i);
RECURSIVE leafLoop(_, _, _)
leafLoop(d, j, acc) ==
    IF j >= Len(d) THEN acc
    ELSE leafLoop(d, j + 1, IF d[j + 1] = 1 THEN Append(acc, j) ELSE acc)

getLeaves(es) == leafLoop(degLoop(zeros(Len(es) + 1), es, 1), 0, <<>>)

\* The nodes reachable from `from` along edges `es`, read in both directions
\* (both = TRUE) or tail -> head only.
RECURSIVE reach(_, _, _, _)
reach(R, es, both, fuel) ==
    LET step == R \cup {es[j][2] : j \in {k \in 1 .. Len(es) : es[k][1] \in R}}
                  \cup (IF both
                        THEN {es[j][1] : j \in {k \in 1 .. Len(es) : es[k][2] \in R}}
                        ELSE {})
    IN  IF fuel = 0 \/ step = R THEN R ELSE reach(step, es, both, fuel - 1)

\* es is the edge list of an undirected tree on the nodes 0 .. k-1.
IsTree(k, es) ==
    /\ Len(es) = k - 1
    /\ \A j \in 1 .. Len(es) : es[j][1] \in 0 .. (k - 1) /\ es[j][2] \in 0 .. (k - 1)
    /\ reach({0}, es, TRUE, k) = 0 .. (k - 1)

\* The edge lists given to getLeaves: every ordering and orientation of
\* every tree on 1 .. MaxLeafN nodes labelled 0 .. n-1.
TreeEdgeLists ==
    UNION {{es \in [1 .. (k - 1) -> (0 .. (k - 1)) \X (0 .. (k - 1))] : IsTree(k, es)} :
           k \in 1 .. MaxLeafN}

\* A call getLeaves(edges) on a tree.
GetLeaves ==
    /\ pc = "idle"
    /\ \E es \in TreeEdgeLists :
         /\ edges' = es
         /\ n' = Len(es) + 1
         /\ deg' = degLoop(zeros(Len(es) + 1), es, 1)
         /\ leaf' = getLeaves(es)
    /\ op' = "getLeaves" /\ pc' = "done"
    /\ UNCHANGED <<m, t, s, p, perm, i, wdraws, sampleVars, rndVars, snap>>

\* ------------------------------------------------------- a second process
\* main's registerGen seeds the random source from the command line: the
\* program started again with the same arguments draws the same raw
\* sequence.  What the finished run of genTree computed is kept in snap.
RegisterGenAgain ==
    /\ op = "genTree" /\ pc = "done" /\ snap = NoSnap
    /\ snap' = [n |-> n, t |-> t, p |-> p, perm |-> perm, edges |-> edges,
                calls |-> calls]
    /\ op' = "none" /\ pc' = "idle"
    /\ n' = 0 /\ m' = 0 /\ t' = 0 /\ s' = Unset
    /\ p' = <<>> /\ perm' = <<>> /\ edges' = <<>> /\ i' = 0 /\ wdraws' = <<>>
    /\ pos' = 0 /\ calls' = <<>>
    /\ UNCHANGED <<sampleVars, leafVars, seed>>

\* ---------------------------------------------------------- specifications
CallTree == \E n0 \in 0 .. MaxN : \E t0 \in Bias : TreeCall(n0, t0)

CallGraph == \E n0 \in 1 .. MaxN : \E m0 \in 0 .. MaxM : \E t0 \in Bias : GraphCall(n0, m0, t0)

\* The second run calls the graph builder with the first run's n and t.
CallGraphAgain == snap # NoSnap /\ snap.n >= 1 /\ \E m0 \in 0 .. MaxM : GraphCall(snap.n, m0, snap.t)

CallTreeFirst == snap = NoSnap /\ \E n0 \in 1 .. MaxN : \E t0 \in Bias : TreeCall(n0, t0)

NextSample == CallSample \/ SamplePick \/ SampleReturn

NextTree == CallTree \/ TreeParent \/ TreePerm \/ TreeEdge \/ TreeReturn

NextGraph ==
    \/ CallGraph \/ GraphParent \/ GraphPerm \/ GraphSpan \/ GraphStart
    \/ GraphExtraCall \/ SamplePick \/ SampleReturn \/ GraphExtraPush \/ GraphReturn

NextLeaves == GetLeaves

NextPair ==
    \/ CallTreeFirst \/ TreeParent \/ TreePerm \/ TreeEdge \/ TreeReturn
    \/ RegisterGenAgain
    \/ CallGraphAgain \/ GraphParent \/ GraphPerm \/ GraphSpan \/ GraphStart
    \/ GraphExtraCall \/ SamplePick \/ SampleReturn \/ GraphExtraPush \/ GraphReturn

Next == NextSample \/ NextTree \/ NextGraph \/ NextLeaves

Spec == Init /\ [][Next]_vars

SpecSample == Init /\ [][NextSample]_vars

SpecTree == Init /\ [][NextTree]_vars

SpecGraph == Init /\ [][NextGraph]_vars

SpecLeaves == Init /\ [][NextLeaves]_vars

SpecPair == InitSeeded /\ [][NextPair]_vars

\* ------------------------------------------------------------- properties
Graph == "genConnectedDirectedGraph"

Nodes(k) == 0 .. (k - 1)

RemoveAt(v, j) == SubSeq(v, 1, j - 1) \o SubSeq(v, j + 1, Len(v))

\* No edge of es closes a cycle: without it, its endpoints are disconnected.
Acyclic(es) ==
    \A j \in 1 .. Len(es) :
        es[j][2] \notin reach({es[j][1]}, RemoveAt(es, j), TRUE, Len(es))

NoRepeat(v) == \A a, b \in 1 .. Len(v) : a # b => v[a] # v[b]

RECURSIVE SumTo(_, _)
SumTo(v, k) == IF k = 0 THEN 0 ELSE v[k] + SumTo(v, k - 1)

\* The number of edge endpoints at node v.
Endpoints(es, v) ==
    Cardinality({j \in 1 .. Len(es) : es[j][1] = v})
    + Cardinality({j \in 1 .. Len(es) : es[j][2] = v})

Pair(e) == {e[1], e[2]}

\* C1: genTree(n, t) returns exactly max(n-1, 0) edges with endpoints in
\* [0, n); read as undirected they are acyclic and connect all n nodes.
C1_TreeIsTree ==
    (op = "genTree" /\ pc = "done") =>
        /\ Len(edges) = Max2(n - 1, 0)
        /\ \A j \in 1 .. Len(edges) :
             edges[j][1] \in Nodes(n) /\ edges[j][2] \in Nodes(n)
        /\ Acyclic(edges)
        /\ n >= 1 => \A v \in Nodes(n) : reach({v}, edges, TRUE, n) = Nodes(n)

C1_Witness ==
    op = "genTree" /\ pc = "done" /\ n = 3 /\ Len(edges) = 2 /\ t = 1

\* C2: when genConnectedDirectedGraph returns, s is the first element of the
\* permutation and every node is reachable from s along the returned edges
\* followed tail -> head.
C2_ReachableFromStart ==
    (op = Graph /\ pc = "done") =>
        /\ s = perm[1]
        /\ reach({s}, edges, FALSE, n) = Nodes(n)

C2_Witness ==
    op = Graph /\ pc = "done" /\ n = 3 /\ m = 3 /\ s = perm[1] /\ s # 0

PartitionCalls == {j \in 1 .. Len(calls) : calls[j] = <<"partition", 2, n>>}

\* C3 as stated: for every n >= 1 and m >= n-1 the call completes (it is
\* never terminated) and returns exactly m edges.
C3_Original ==
    (op = Graph /\ n >= 1 /\ m >= n - 1) =>
        /\ pc # "failed"
        /\ pc = "done" => Len(edges) = m

\* Where C3 does hold: for n >= 2 and m >= n-1, and for n = 1 with m = 0,
\* the call is never terminated, can always take its next step until it
\* returns, and returns exactly m edges, n-1 spanning ones and m-(n-1) extra
\* ones, one call sample(perm, n, 2) each; for n = 1 and m >= 1 it never
\* returns: the first sample(perm, 1, 2) terminates the program.
C3_EdgeCount ==
    /\ (op = Graph /\ m >= n - 1 /\ (n >= 2 \/ m = 0)) =>
        /\ pc # "failed"
        /\ pc # "done" => ENABLED NextGraph
        /\ pc = "done" =>
            /\ Len(edges) = m
            /\ Cardinality(PartitionCalls) = m - (n - 1)
    /\ (op = Graph /\ n = 1 /\ m >= 1) => pc # "done"

C3_Witness ==
    op = Graph /\ pc = "done" /\ n = 2 /\ m = 3 /\ Len(edges) = 3

\* C4: for 1 <= count <= length, sample returns exactly count elements, read
\* at count pairwise distinct indices of [0, length): the parts of the
\* composition are positive and sum to length, and the k-th index read lies
\* in the k-th block, which starts at the sum of the earlier parts.
C4_SampleDistinct ==
    (op = "sample" /\ spc = "done" /\ 1 <= num /\ num <= length) =>
        /\ Len(result) = num
        /\ Len(picked) = num
        /\ NoRepeat(picked)
        /\ \A k \in 1 .. num : picked[k] \in 0 .. (length - 1)
        /\ Len(vec) = num
        /\ \A k \in 1 .. num : vec[k] >= 1
        /\ SumTo(vec, num) = length
        /\ \A k \in 1 .. num :
             /\ SumTo(vec, k - 1) <= picked[k]
             /\ picked[k] < SumTo(vec, k - 1) + vec[k]
        /\ NoRepeat(result)
        /\ Range(result) = {container[picked[k] + 1] : k \in 1 .. num}

C4_Witness ==
    /\ op = "sample" /\ spc = "done" /\ num = 2 /\ length = 4
    /\ vec = <<3, 1>> /\ picked = <<1, 3>> /\ result = <<40, 20>>

\* C5: called with m < n-1, genConnectedDirectedGraph is terminated at once:
\* no call is made on the random source, s is not written, no edge is built
\* and nothing is returned.
C5_AssertFailsFirst ==
    (op = Graph /\ m < n - 1) =>
        /\ pc = "failed"
        /\ calls = <<>> /\ pos = 0
        /\ s = Unset
        /\ edges = <<>> /\ perm = <<>> /\ p = <<>>

C5_Witness ==
    op = Graph /\ pc = "failed" /\ n = 3 /\ m = 1

\* C6 as stated: sample is terminated, and so never returns, for every call
\* with count > length or count <= 0, count = 0 with length = 0 included.
C6_Original ==
    (op = "sample" /\ (num > length \/ num <= 0)) => spc # "done" /\ pc # "done"

\* C6 amended: sample is terminated, returning nothing, for count > length,
\* for count < 0 and for count = 0 with length > 0; for count = 0 with
\* length = 0 it returns the empty container; it never returns fewer than
\* count elements or a repeated index.
C6_SampleFails ==
    op = "sample" =>
        /\ (num > length \/ num < 0 \/ (num = 0 /\ length > 0)) =>
              spc = "failed" /\ pc = "failed" /\ result = <<>>
        /\ (num = 0 /\ length = 0) =>
              spc # "failed" /\ (spc = "done" => result = <<>>)
        /\ spc = "done" => Len(result) = num /\ NoRepeat(picked)

C6_Witness ==
    op = "sample" /\ num = 0 /\ length = 0 /\ spc = "done" /\ pc = "done"

\* The ascending sequence of the members of a set of numbers, its smallest
\* member first.
RECURSIVE Ascending(_)
Ascending(S) ==
    IF S = {} THEN <<>>
    ELSE LET lo == CHOOSE x \in S : \A y \in S : x <= y
         IN  <<lo>> \o Ascending(S \ {lo})

\* C7: on a tree, getLeaves returns exactly the nodes with one incident edge
\* endpoint, each once, in strictly ascending order; both nodes for n = 2,
\* and all nodes but the hub for a star.
C7_Leaves ==
    (op = "getLeaves" /\ pc = "done") =>
        /\ leaf = Ascending({v \in Nodes(n) : Endpoints(edges, v) = 1})
        /\ \A a, b \in 1 .. Len(leaf) : a < b => leaf[a] < leaf[b]
        /\ n = 2 => leaf = <<0, 1>>
        /\ \A h \in Nodes(n) :
             (n >= 3 /\ \A j \in 1 .. Len(edges) : h \in Pair(edges[j]))
                => Range(leaf) = Nodes(n) \ {h}

C7_Witness ==
    /\ op = "getLeaves" /\ pc = "done" /\ n = 4
    /\ \A j \in 1 .. Len(edges) : 2 \in Pair(edges[j])
    /\ leaf = <<0, 1, 3>>

\* C8: no edge genConnectedDirectedGraph builds is a self-loop: the two
\* indices an extra edge's sample reads differ, and a spanning edge joins
\* perm[p[k]] to perm[k] with p[k] < k.  (That parallel edges may occur is
\* what the witness shows.)
C8_NoSelfLoop ==
    op = Graph =>
        /\ \A j \in 1 .. Len(edges) : edges[j][1] # edges[j][2]
        /\ NoRepeat(picked)
        /\ spc = "done" => result[1] # result[2]
        /\ pc = "parents" => \A k \in 1 .. (i - 1) : p[k + 1] < k
        /\ pc \in {"span", "extra", "done"} =>
             /\ \A k \in 1 .. (n - 1) : p[k + 1] < k
             /\ NoRepeat(perm)

C8_Witness ==
    /\ op = Graph /\ pc = "done" /\ n = 3 /\ m = 3
    /\ \E a, b \in 1 .. Len(edges) : a # b /\ edges[a] = edges[b]

\* The k-th node's parent as genTree draws it with bias type from raws.
SetMax(S) == CHOOSE x \in S : \A y \in S : y <= x

SetMin(S) == CHOOSE x \in S : \A y \in S : x <= y

Uniforms(k, raws) == {next(k, raws[j]) : j \in 1 .. Len(raws)}

\* raws and other agree on the draws both hold.
SameDraws(raws, other) ==
    \A j \in 1 .. Min2(Len(raws), Len(other)) : raws[j] = other[j]

\* C9: the parent of node k is the maximum of t+1 uniform draws over [0, k)
\* for t > 0, the minimum of |t|+1 for t < 0, one draw for t = 0; with the
\* same underlying draws, a larger t never gives a smaller parent index
\* (further from k-1, the chain) and a smaller t never a larger one (further
\* from 0, the star).
C9_BiasDirection ==
    (op = "genTree" /\ pc = "parents" /\ i >= 2) =>
        LET k == i - 1
            par == p[k + 1]
        IN  /\ Len(wdraws) = Abs(t) + 1
            /\ par \in 0 .. (k - 1)
            /\ t > 0 => par = SetMax(Uniforms(k, wdraws))
            /\ t < 0 => par = SetMin(Uniforms(k, wdraws))
            /\ t = 0 => par = next(k, wdraws[1])
            /\ \A t2 \in Bias : \A other \in RawSeqs(Abs(t2) + 1) :
                 SameDraws(wdraws, other) =>
                    /\ t2 >= t => treeParent(k, t2, other) >= par
                    /\ t2 <= t => treeParent(k, t2, other) <= par

C9_Witness ==
    /\ op = "genTree" /\ pc = "parents" /\ i = 3 /\ t = 1
    /\ next(2, wdraws[1]) = 0 /\ p[3] = 1

\* The calls both builders make first on the random source.
PrefixCalls(k, type) ==
    [j \in 1 .. k |-> IF j < k THEN <<"wnext", j, type>> ELSE <<"perm", k, 0>>]

\* C10: started from the same state of the random source with the same n
\* and t, genConnectedDirectedGraph makes the same first calls on it as
\* genTree did (the parent draws in ascending i, then the permutation, before
\* anything else), computes the same p and perm, and its first n-1 edges are
\* genTree's edges as undirected pairs, each oriented parent -> child.
C10_SamePrefix ==
    (snap # NoSnap /\ op = Graph /\ pc \in {"span", "extra", "done"}) =>
        /\ n = snap.n /\ t = snap.t
        /\ p = snap.p
        /\ perm = snap.perm
        /\ SubSeq(calls, 1, n) = PrefixCalls(n, t)
        /\ SubSeq(snap.calls, 1, n) = PrefixCalls(n, t)
        /\ pc = "extra" =>
             /\ {Pair(edges[j]) : j \in 1 .. (n - 1)}
                  = {Pair(snap.edges[j]) : j \in 1 .. Len(snap.edges)}
             /\ \A k \in 1 .. (n - 1) :
                  edges[k] = <<perm[p[k + 1] + 1], perm[k + 1]>>

C10_Witness ==
    /\ snap # NoSnap /\ op = Graph /\ pc = "extra" /\ n = 3 /\ t = 1
    /\ p = snap.p /\ p[3] = 1 /\ perm = snap.perm /\ perm[1] = 2
    /\ Len(edges) = 2

====
